---- MODULE Spec2Model ----
(***************************************************************************)
(* The conversation session manager of Nexus: the React hook useChat       *)
(* (src/src/types/speech.d.ts, lines 79-206) together with the remote      *)
(* chat endpoint it calls.                                                 *)
(*                                                                         *)
(* React state: conversations, activeConversationId, isTyping.             *)
(* Every handler the hook returns is a closure over the state of the       *)
(* render that produced it (useCallback dependency lists, lines 109 and    *)
(* 194).  The handlers are modelled as invoked from the latest render, so  *)
(* the unprimed variables an action reads are the values its closure       *)
(* captured, and the functional updaters (prev => ...) it queues are       *)
(* applied in order to that same state.  The continuation of sendMessage   *)
(* after `await fetch` only uses functional updaters and the captured      *)
(* conversationId, so it is modelled as a separate action (Settle...) that *)
(* may interleave with every other handler.                                *)
(*                                                                         *)
(* generateId (line 82) draws random strings; they are modelled as fresh   *)
(* numbers from a counter.  createdAt, updatedAt and timestamp are not     *)
(* modelled.  Text is a sequence of one-character strings.                 *)
(***************************************************************************)
EXTENDS Integers, Sequences, FiniteSets, TLC

\* Bounds of the model.
MaxConvs == 2
MaxSends == 2

\* activeConversationId === null (line 86); ids are 1, 2, ...
Null == 0

\* content.slice(0, 30) and content.length > 30 (line 118)
TitleLimit == 30

\* What a user may type.
Contents == { <<"h", "i">> }

\* A text of n characters, no two neighbours alike.
Text(n) == [ i \in 1..n |-> IF i % 3 = 1 THEN "a" ELSE IF i % 3 = 2 THEN "b" ELSE "c" ]

\* What a caller of the hook may pass to sendMessage(content): nothing stops
\* an empty text, a blank one, or one beyond the title limit (line 111).
InputContents ==
    { << >>, << " ", " " >>, << "h", "i" >>, Text(TitleLimit), Text(TitleLimit + 1) }

\* What a user may leave in the textarea of ChatInput before submitting
\* (ChatInput.tsx line 151).
RawInputs == { << >>, << " " >>, << "h", "i" >>, << " ", "h", "i", " " >> }

\* Reply texts the backend may put in the `response` field.
Replies == { <<"o", "k">> }

\* `data.response` of a body without that field: JavaScript's undefined.
Undefined == << "undefined" >>

\* 'New Chat' (line 95)
NewChatTitle == << "N", "e", "w", " ", "C", "h", "a", "t" >>

\* '...' (line 118)
Ellipsis == << ".", ".", "." >>

\* 'Failed to get a response. Is the backend running?' (line 182)
FailureNotice ==
    << "F", "a", "i", "l", "e", "d", " ", "t", "o", " ", "g", "e", "t", " ",
       "a", " ", "r", "e", "s", "p", "o", "n", "s", "e", ".", " ", "I", "s",
       " ", "t", "h", "e", " ", "b", "a", "c", "k", "e", "n", "d", " ", "r",
       "u", "n", "n", "i", "n", "g", "?" >>

\* How the remote call can settle (lines 153-165):
\*   reply        fetch resolves, response.ok, body has a string `response`
\*   noField      fetch resolves, response.ok, JSON body without `response`
\*   badJson      fetch resolves, response.ok, response.json() rejects
\*   httpError    fetch resolves, !response.ok
\*   networkError fetch rejects
Outcomes ==
    [kind : {"reply"}, response : Replies]
      \cup [kind : {"noField", "badJson", "httpError", "networkError"},
            response : {Undefined}]

VARIABLES
    conversations,          \* useState<Conversation[]>([])        (line 85)
    activeConversationId,   \* useState<string | null>(null)       (line 86)
    isTyping,               \* useState(false)                     (line 87)
    calls,                  \* the sendMessage invocations, in call order
    nextConvId              \* generateId for conversations

vars == << conversations, activeConversationId, isTyping, calls, nextConvId >>

----------------------------------------------------------------------------
\* Helpers on sequences.

\* String.prototype.slice(0, n)
Slice(s, n) == SubSeq(s, 1, IF Len(s) < n THEN Len(s) ELSE n)

IsPrefix(s, t) == Len(s) <= Len(t) /\ SubSeq(t, 1, Len(s)) = s

ConvIds(convs) == { convs[i].id : i \in DOMAIN convs }

\* White space as String.prototype.trim sees it.
IsSpace(c) == c \in { " ", "\t", "\n" }

\* String.prototype.trim()   (ChatInput.tsx lines 70-71)
RECURSIVE TrimStart(_)
TrimStart(s) ==
    IF s # << >> /\ IsSpace(Head(s)) THEN TrimStart(Tail(s)) ELSE s

RECURSIVE TrimEnd(_)
TrimEnd(s) ==
    IF s # << >> /\ IsSpace(s[Len(s)]) THEN TrimEnd(SubSeq(s, 1, Len(s) - 1)) ELSE s

Trim(s) == TrimEnd(TrimStart(s))

\* conversations.find(c => c.id === id)?.messages || []   (lines 89-90, 146-147)
MessagesOf(convs, id) ==
    IF \E i \in DOMAIN convs : convs[i].id = id
    THEN convs[CHOOSE i \in DOMAIN convs :
                 /\ convs[i].id = id
                 /\ \A j \in DOMAIN convs : convs[j].id = id => i <= j].messages
    ELSE << >>

\* messages of the hook's return value (lines 89-90)
messages == MessagesOf(conversations, activeConversationId)

----------------------------------------------------------------------------
\* The state updaters of the hook.

\* A new conversation put at the end of the list instead of the front.
PushBack(conv, prev) == prev \o << conv >>

\* prev => [newConversation, ...prev]   (lines 100, 123)
Prepend(conv, prev) == << conv >> \o prev

\* The filter's test turned around: only the named conversation is kept.
RemoveAllBut(prev, id) ==
    LET keep(c) == c.id = id IN SelectSeq(prev, keep)

\* prev => prev.filter(c => c.id !== id)   (line 105)
RemoveConversation(prev, id) ==
    LET keep(c) == c.id # id IN SelectSeq(prev, keep)

\* The message put in front of the conversation's messages.
PrependMessage(prev, conversationId, message) ==
    [ i \in DOMAIN prev |->
        IF prev[i].id = conversationId
        THEN [ prev[i] EXCEPT !.messages = << message >> \o @ ]
        ELSE prev[i] ]

\* The message appended to whatever conversation is active, not to the
\* conversation the call resolved.
AppendToActive(prev, conversationId, message) ==
    [ i \in DOMAIN prev |->
        IF prev[i].id = activeConversationId
        THEN [ prev[i] EXCEPT !.messages = Append(@, message) ]
        ELSE prev[i] ]

\* The message appended to the first conversation when the resolved one is
\* gone.
AppendOrFirst(prev, conversationId, message) ==
    [ i \in DOMAIN prev |->
        IF \/ prev[i].id = conversationId
           \/ (i = 1 /\ \A j \in DOMAIN prev : prev[j].id # conversationId)
        THEN [ prev[i] EXCEPT !.messages = Append(@, message) ]
        ELSE prev[i] ]

\* prev => prev.map(c => c.id === conversationId
\*            ? { ...c, messages: [...c.messages, message] } : c)
\* (lines 136-140, 173-177, 186-190)
AppendMessage(prev, conversationId, message) ==
    [ i \in DOMAIN prev |->
        IF prev[i].id = conversationId
        THEN [ prev[i] EXCEPT !.messages = Append(@, message) ]
        ELSE prev[i] ]

\* The ellipsis added from the limit on: content.length >= 30.
TitleOfOffByOne(content) ==
    Slice(content, TitleLimit)
      \o (IF Len(content) >= TitleLimit THEN Ellipsis ELSE << >>)

\* content.slice(0, 30) + (content.length > 30 ? '...' : '')   (line 118)
TitleOf(content) ==
    Slice(content, TitleLimit)
      \o (IF Len(content) > TitleLimit THEN Ellipsis ELSE << >>)

\* .map(msg => ({ role: msg.role, content: msg.content }))   (lines 148-151)
Reduce(msgs) ==
    [ i \in DOMAIN msgs |-> [ role |-> msgs[i].role, content |-> msgs[i].content ] ]

\* The history as captured before the optimistic append, without the new
\* user message.
StaleMessagesForBackend(convs, conversationId, userMessage) ==
    Reduce(MessagesOf(convs, conversationId))

\* messagesForBackend: the captured conversation's messages, then the new
\* user message (lines 146-151).  `convs` is the `conversations` the
\* closure captured.
MessagesForBackend(convs, conversationId, userMessage) ==
    Reduce(Append(MessagesOf(convs, conversationId), userMessage))

\* The three ways a remote call ends for the user (spec section 7): a
\* reply, a success status without a reply field, a failure.
OutcomeClass(outcome) ==
    IF outcome.kind \in {"reply", "noField"} THEN outcome.kind ELSE "failure"

\* The status check of line 161 left out: a non-success status runs on in
\* the try block.
CodePathNoStatusCheck(outcome) ==
    IF outcome.kind \in {"reply", "noField", "httpError"} THEN "try" ELSE "catch"

\* The try / catch of sendMessage (lines 144-190): the block that builds the
\* assistant message.  fetch rejecting, !response.ok (line 161) and
\* response.json() rejecting all throw inside the try block.
CodePath(outcome) ==
    IF outcome.kind \in {"reply", "noField"} THEN "try" ELSE "catch"

\* The content of the assistant message appended for an outcome.
AssistantContent(outcome) ==
    IF CodePath(outcome) = "try"
    THEN outcome.response           \* content: data.response   (line 168)
    ELSE FailureNotice              \* catch block              (line 182)

\* The promise sendMessage returns: every error thrown in the try block is
\* caught (line 178) and nothing is rethrown.
PromiseState(outcome) == "fulfilled"

\* The finally block left out: isTyping is never cleared.
TypingKept(typing) == typing

\* finally { setIsTyping(false) }   (lines 191-193)
TypingAfterSettle(typing) == FALSE

\* generateId() (line 82) for the messages of the k-th sendMessage call: ids
\* that no other message has.
UserMessageId(k) == 2 * k - 1
AssistantMessageId(k) == 2 * k

----------------------------------------------------------------------------
Init ==
    /\ conversations = << >>
    /\ activeConversationId = Null
    /\ isTyping = FALSE
    /\ calls = << >>
    /\ nextConvId = 1

\* createNewConversation   (lines 92-102)
CreateNewConversation ==
    /\ nextConvId <= MaxConvs
    /\ LET newConversation ==
             [ id |-> nextConvId, title |-> NewChatTitle, messages |-> << >> ]
       IN  /\ conversations' = Prepend(newConversation, conversations)
           /\ activeConversationId' = newConversation.id
    /\ nextConvId' = nextConvId + 1
    /\ UNCHANGED << isTyping, calls >>

\* The conversation removed, the active id left as it was.
DeleteConversationKeepActive(id) ==
    /\ conversations' = RemoveConversation(conversations, id)
    /\ UNCHANGED << activeConversationId, isTyping, calls, nextConvId >>

\* deleteConversation(id)   (lines 104-109)
DeleteConversation(id) ==
    /\ conversations' = RemoveConversation(conversations, id)
    /\ activeConversationId' =
         IF activeConversationId = id THEN Null ELSE activeConversationId
    /\ UNCHANGED << isTyping, calls, nextConvId >>

\* setActiveConversationId(id), as the sidebar calls it: with the id of a
\* listed conversation (Sidebar.tsx line 90); null is the hook-level reset.
SetActive(id) ==
    /\ id \in ConvIds(conversations) \cup { Null }
    /\ activeConversationId' = id
    /\ UNCHANGED << conversations, isTyping, calls, nextConvId >>

\* sendMessage(content) up to `await fetch`   (lines 111-159)
SendMessage(content) ==
    /\ Len(calls) < MaxSends
    /\ activeConversationId = Null => nextConvId <= MaxConvs
    /\ LET create == (activeConversationId = Null)          \* line 115
           newConversation ==
             [ id |-> nextConvId, title |-> TitleOf(content),
               messages |-> << >> ]
           conversationId ==
             IF create THEN newConversation.id ELSE activeConversationId
           userMessage ==
             [ id |-> UserMessageId(Len(calls) + 1), role |-> "user",
               content |-> content ]
           withNew ==
             IF create THEN Prepend(newConversation, conversations)
                       ELSE conversations
       IN  /\ conversations' = AppendMessage(withNew, conversationId, userMessage)
           /\ activeConversationId' = conversationId
           /\ nextConvId' = IF create THEN nextConvId + 1 ELSE nextConvId
           /\ isTyping' = TRUE                               \* line 142
           /\ calls' = Append(calls,
                [ conversationId |-> conversationId,
                  created |-> create,
                  content |-> content,
                  userMessage |-> userMessage.id,
                  \* the fetch requests issued, each with its `messages`
                  requests |-> << MessagesForBackend(conversations,
                                    conversationId, userMessage) >>,
                  state |-> "pending",
                  \* what the continuation met when it ran (set by Settle)
                  outcome |-> "none",
                  found |-> FALSE ])

\* sendMessage after `await fetch`   (lines 161-193)
Settle(k, outcome) ==
    /\ k \in DOMAIN calls
    /\ calls[k].state = "pending"
    /\ LET assistantMessage ==
             [ id |-> AssistantMessageId(k), role |-> "assistant",
               content |-> AssistantContent(outcome) ]
       IN  conversations' =
             AppendMessage(conversations, calls[k].conversationId, assistantMessage)
    /\ isTyping' = TypingAfterSettle(isTyping)
    /\ calls' = [ calls EXCEPT
                   ![k].state = PromiseState(outcome),
                   ![k].outcome = OutcomeClass(outcome),
                   ![k].found = calls[k].conversationId \in ConvIds(conversations) ]
    /\ UNCHANGED << activeConversationId, nextConvId >>

\* The remote call resolves with a success status and a JSON body.
SettleOk ==
    \E k \in DOMAIN calls :
      \E o \in { x \in Outcomes : x.kind \in {"reply", "noField"} } : Settle(k, o)

\* The remote call fails: network error, non-success status, unparsable body.
SettleFail ==
    \E k \in DOMAIN calls :
      \E o \in { x \in Outcomes : x.kind \notin {"reply", "noField"} } : Settle(k, o)

Next ==
    \/ CreateNewConversation
    \/ \E id \in 1..MaxConvs : DeleteConversation(id)
    \/ \E id \in 0..MaxConvs : SetActive(id)
    \/ \E content \in Contents : SendMessage(content)
    \/ SettleOk
    \/ SettleFail

Spec == Init /\ [][Next]_vars

\* The remote call eventually settles.
SpecLive == Spec /\ WF_vars(SettleOk \/ SettleFail)

----------------------------------------------------------------------------
\* The hook called with any text: sendMessage itself looks at no property of
\* content (line 111), so a caller other than ChatInput may pass an empty, a
\* blank or a long one.
NextInputs ==
    \/ \E content \in InputContents : SendMessage(content)
    \/ \E id \in 1..MaxConvs : DeleteConversation(id)
    \/ SettleOk
    \/ SettleFail

SpecInputs == Init /\ [][NextInputs]_vars

----------------------------------------------------------------------------
\* The hook as the page wires it (Index.tsx lines 45-63): the sidebar selects
\* and deletes listed conversations and starts new ones, ChatInput submits.

\* The submit handler without its checks.
HandleSubmitUnchecked(input) == SendMessage(Trim(input))

\* ChatInput.handleSubmit (ChatInput.tsx lines 69-74), with
\* disabled = isTyping and onSend = sendMessage (Index.tsx line 63).
HandleSubmit(input) ==
    /\ Trim(input) # << >>          \* input.trim()
    /\ ~isTyping                    \* !disabled
    /\ SendMessage(Trim(input))     \* onSend(input.trim())

NextUI ==
    \/ CreateNewConversation
    \/ \E id \in ConvIds(conversations) : DeleteConversation(id)
    \/ \E id \in ConvIds(conversations) : SetActive(id)
    \/ \E input \in RawInputs : HandleSubmit(input)
    \/ SettleOk
    \/ SettleFail

SpecUI == Init /\ [][NextUI]_vars

----------------------------------------------------------------------------
\* The hook's setActiveConversationId is the raw state setter (line 201): it
\* takes any id.  An id that resolves to no conversation is the id of a
\* deleted conversation, or one generateId never returned (MaxConvs + 1).
SetActiveUnlisted(id) ==
    /\ id \notin ConvIds(conversations)
    /\ id < nextConvId \/ id > MaxConvs
    /\ activeConversationId' = id
    /\ UNCHANGED << conversations, isTyping, calls, nextConvId >>

NextUnlisted ==
    \/ CreateNewConversation
    \/ \E id \in 1..MaxConvs : DeleteConversation(id)
    \/ \E id \in 1..(MaxConvs + 1) : SetActiveUnlisted(id)
    \/ \E content \in Contents : SendMessage(content)
    \/ SettleOk
    \/ SettleFail

SpecUnlisted == Init /\ [][NextUnlisted]_vars

----------------------------------------------------------------------------
\* Vocabulary of the properties.

\* The calls whose remote request has not settled yet.
Outstanding == { k \in DOMAIN calls : calls[k].state = "pending" }

\* This step is the synchronous part of a sendMessage call.
SendStep == Len(calls') = Len(calls) + 1

\* This step is the continuation of call k after its remote call settled.
SettleStep(k) ==
    /\ k \in DOMAIN calls
    /\ k \in DOMAIN calls'
    /\ calls[k].state = "pending"
    /\ calls'[k].state # "pending"

\* The calls other than k that resolved conversation id.
OtherCallsOn(id, k) ==
    { j \in DOMAIN calls : j # k /\ calls[j].conversationId = id }

UserMessageOf(k) ==
    [ id |-> UserMessageId(k), role |-> "user", content |-> calls[k].content ]

FailureMessageOf(k) ==
    [ id |-> AssistantMessageId(k), role |-> "assistant",
      content |-> FailureNotice ]

\* The position of the message with this id in msgs, 0 when it is not there.
IndexOf(msgs, id) ==
    IF \E i \in DOMAIN msgs : msgs[i].id = id
    THEN CHOOSE i \in DOMAIN msgs : msgs[i].id = id
    ELSE 0

----------------------------------------------------------------------------
\* C1: isTyping is true if and only if at least one remote call issued by
\* sendMessage is still outstanding.  (Stated as claimed; the code clears
\* isTyping when any call settles, also while another is in flight.)
C1_PendingIffOutstanding == isTyping <=> (Outstanding # {})

\* C2: the messages payload of the request a sendMessage call issues is the
\* full message list of the resolved conversation as it stands once the user
\* message is appended, reduced to {role, content}, the user message last.
C2_PayloadIsFullHistory ==
    [][ SendStep =>
          LET call == calls'[Len(calls')]
              history == MessagesOf(conversations', call.conversationId)
          IN  /\ call.requests = << Reduce(history) >>
              /\ history # << >>
              /\ history[Len(history)] =
                   [ id |-> call.userMessage, role |-> "user",
                     content |-> call.content ]
      ]_vars

\* C2 witness: a request was issued with a history of earlier messages: a
\* user message, the assistant's reply, then the message just sent.
C2_Witness ==
    \E k \in DOMAIN calls :
      LET payload == calls[k].requests[1]
      IN  /\ Len(payload) = 3
          /\ payload[1].role = "user"
          /\ payload[2].role = "assistant"
          /\ payload[3].role = "user"

\* C3: when a call settles (successfully or not) after its conversation was
\* deleted, the conversation list is left as it is (the conversation stays
\* absent and no other conversation gains a message), sendMessage does not
\* reject, and isTyping is cleared.
C3_SettleAfterDelete ==
    [][ \A k \in DOMAIN calls :
          ( SettleStep(k) /\ calls[k].conversationId \notin ConvIds(conversations) )
            => /\ conversations' = conversations
               /\ calls[k].conversationId \notin ConvIds(conversations')
               /\ calls'[k].state = "fulfilled"
               /\ isTyping' = FALSE
      ]_vars

\* C3 witness: a call that got a reply and a call that failed have both
\* settled after their conversation was deleted, another conversation is
\* listed, and isTyping is cleared.
C3_Witness ==
    /\ \E k \in DOMAIN calls :
         /\ calls[k].state = "fulfilled"
         /\ calls[k].outcome = "reply"
         /\ ~calls[k].found
    /\ \E k \in DOMAIN calls :
         /\ calls[k].state = "fulfilled"
         /\ calls[k].outcome = "failure"
         /\ ~calls[k].found
    /\ conversations # << >>
    /\ \A i \in DOMAIN conversations : conversations[i].messages = << >>
    /\ ~isTyping

\* C4: a sendMessage call that resolved conversation X changes the message
\* list of X only: its synchronous part and its continuation leave every
\* other conversation's messages as they were, and the continuation appends
\* the assistant message to X when X is still listed, whichever conversation
\* is active by then.
C4_OnlyResolvedConversation ==
    [][ /\ SendStep =>
             LET X == calls'[Len(calls')].conversationId
             IN  \A c \in ConvIds(conversations) \ { X } :
                   /\ c \in ConvIds(conversations')
                   /\ MessagesOf(conversations', c) = MessagesOf(conversations, c)
        /\ \A k \in DOMAIN calls :
             SettleStep(k) =>
               LET X == calls[k].conversationId
                   before == MessagesOf(conversations, X)
                   after == MessagesOf(conversations', X)
               IN  /\ ConvIds(conversations') = ConvIds(conversations)
                   /\ \A c \in ConvIds(conversations) \ { X } :
                        MessagesOf(conversations', c) = MessagesOf(conversations, c)
                   /\ X \in ConvIds(conversations) =>
                        /\ Len(after) = Len(before) + 1
                        /\ IsPrefix(before, after)
                        /\ after[Len(after)].id = AssistantMessageId(k)
                        /\ after[Len(after)].role = "assistant"
      ]_vars

\* C4 witness: call 1 resolved X and is still in flight; meanwhile another
\* conversation Y was made active, and call 2, sent to Y, has settled: Y
\* holds the user message and the assistant message of call 2, X only the
\* user message of call 1.
C4_Witness ==
    /\ Len(calls) = 2
    /\ calls[1].state = "pending"
    /\ calls[2].state = "fulfilled"
    /\ calls[2].found
    /\ calls[1].conversationId # calls[2].conversationId
    /\ activeConversationId = calls[2].conversationId
    /\ MessagesOf(conversations, calls[1].conversationId) = << UserMessageOf(1) >>
    /\ Len(MessagesOf(conversations, calls[2].conversationId)) = 2
    /\ MessagesOf(conversations, calls[2].conversationId)[1] = UserMessageOf(2)
    /\ MessagesOf(conversations, calls[2].conversationId)[2].id = AssistantMessageId(2)

C6_MissingFieldIsFailure ==
    \A k \in DOMAIN calls :
      LET msgs == MessagesOf(conversations, calls[k].conversationId)
          at == IndexOf(msgs, AssistantMessageId(k))
      IN  ( calls[k].outcome = "noField" /\ at # 0 )
            => msgs[at].content = FailureNotice

\* C7: isTyping is false before any sendMessage call, is true after the
\* synchronous part of every call, is false after every continuation
\* (success path and failure path), and, the remote calls settling
\* eventually, a true isTyping leads to a false one.
C7_PendingRoundTrip ==
    /\ [] ( calls = << >> => ~isTyping )
    /\ [][ SendStep => isTyping' ]_vars
    /\ [][ \A k \in DOMAIN calls : SettleStep(k) => ~isTyping' ]_vars
    /\ ( isTyping ~> ~isTyping )

\* C7 witness: one call has got its reply, another one has failed, both
\* continuations have run, and isTyping is false again.
C7_Witness ==
    /\ ~isTyping
    /\ \E k \in DOMAIN calls :
         calls[k].state = "fulfilled" /\ calls[k].outcome = "reply"
    /\ \E k \in DOMAIN calls :
         calls[k].state = "fulfilled" /\ calls[k].outcome = "failure"

\* C8: a listed conversation's message list only grows at its end: across
\* every step the old list of a conversation that stays listed is a prefix
\* of its new list.
C8_AppendOnly ==
    [][ \A c \in ConvIds(conversations) \cap ConvIds(conversations') :
          IsPrefix(MessagesOf(conversations, c), MessagesOf(conversations', c))
      ]_vars

\* C8 witness: two calls were in flight on one conversation and completed
\* in the order opposite to the call order: user 1, user 2, assistant 2,
\* assistant 1.
C8_Witness ==
    \E i \in DOMAIN conversations :
      LET m == conversations[i].messages
      IN  /\ Len(m) = 4
          /\ m[1].id = UserMessageId(1)
          /\ m[2].id = UserMessageId(2)
          /\ m[3].id = AssistantMessageId(2)
          /\ m[4].id = AssistantMessageId(1)

----------------------------------------------------------------------------
\* The calls on conversation id have all succeeded so far (or are still in
\* flight).
AllSucceed(id) ==
    \A k \in DOMAIN calls :
      calls[k].conversationId = id => calls[k].outcome \in { "none", "reply" }

\* C9 as claimed: in a conversation whose calls all succeed, the user
\* message of every resolved call is immediately followed by that call's
\* assistant reply.
C9_ReplyImmediatelyFollows ==
    \A i \in DOMAIN conversations :
      LET m == conversations[i].messages
      IN  AllSucceed(conversations[i].id) =>
            \A k \in DOMAIN calls :
              ( /\ calls[k].conversationId = conversations[i].id
                /\ calls[k].outcome = "reply"
                /\ calls[k].found )
                => LET u == IndexOf(m, UserMessageId(k))
                   IN  /\ u # 0
                       /\ u + 1 \in DOMAIN m
                       /\ m[u + 1].id = AssistantMessageId(k)

\* C9 as amended: in a conversation whose calls all succeed, the user
\* messages stand in call order, every assistant reply stands somewhere
\* after the user message of its call, and a reply is appended at the end
\* of the list when its call completes (completion order): it immediately
\* follows its user message exactly when no other message was appended to
\* the conversation while the call was in flight.
C9_CallAndCompletionOrder ==
    /\ [] ( \A i \in DOMAIN conversations :
              LET m == conversations[i].messages
              IN  AllSucceed(conversations[i].id) =>
                    /\ \A a, b \in DOMAIN m :
                         ( a < b /\ m[a].role = "user" /\ m[b].role = "user" )
                           => m[a].id < m[b].id
                    /\ \A k \in DOMAIN calls :
                         calls[k].conversationId = conversations[i].id =>
                           /\ IndexOf(m, UserMessageId(k)) # 0
                           /\ ( calls[k].outcome = "reply" /\ calls[k].found ) =>
                                IndexOf(m, AssistantMessageId(k)) >
                                  IndexOf(m, UserMessageId(k)) )
    /\ [][ \A k \in DOMAIN calls :
             ( /\ SettleStep(k)
               /\ calls'[k].outcome = "reply"
               /\ calls[k].conversationId \in ConvIds(conversations) )
               => LET before == MessagesOf(conversations, calls[k].conversationId)
                      after == MessagesOf(conversations', calls[k].conversationId)
                      u == IndexOf(before, UserMessageId(k))
                  IN  /\ Len(after) = Len(before) + 1
                      /\ IsPrefix(before, after)
                      /\ after[Len(after)].id = AssistantMessageId(k)
                      /\ after[Len(after)].role = "assistant"
                      /\ after[Len(after)].content \in Replies
                      /\ ( u = Len(before) <=>
                             IndexOf(after, AssistantMessageId(k)) = u + 1 )
         ]_vars

\* C9 witness: two calls on one conversation have both succeeded, the first
\* one completing after the second was sent: user 1, user 2, assistant 1,
\* assistant 2.
C9_Witness ==
    \E i \in DOMAIN conversations :
      LET m == conversations[i].messages
      IN  /\ AllSucceed(conversations[i].id)
          /\ Len(m) = 4
          /\ m[1].id = UserMessageId(1)
          /\ m[2].id = UserMessageId(2)
          /\ m[3].id = AssistantMessageId(1)
          /\ m[4].id = AssistantMessageId(2)
          /\ m[3].content \in Replies
          /\ m[4].content \in Replies

\* C10: sendMessage invoked while no conversation is active creates exactly
\* one conversation, puts it at the front of the list and makes it active,
\* and until the remote call settles (and no other call is sent to it) that
\* conversation holds exactly the user message; sendMessage invoked while a
\* conversation is active creates none and leaves the active id as it is.
C10_ImplicitCreation ==
    /\ [][ SendStep =>
             LET call == calls'[Len(calls')]
             IN  IF activeConversationId = Null
                 THEN /\ Len(conversations') = Len(conversations) + 1
                      /\ Tail(conversations') = conversations
                      /\ conversations'[1].id \notin ConvIds(conversations)
                      /\ conversations'[1].id = call.conversationId
                      /\ activeConversationId' = conversations'[1].id
                      /\ conversations'[1].messages =
                           << [ id |-> call.userMessage, role |-> "user",
                                content |-> call.content ] >>
                 ELSE /\ Len(conversations') = Len(conversations)
                      /\ \A i \in DOMAIN conversations :
                           conversations'[i].id = conversations[i].id
                      /\ activeConversationId' = activeConversationId
                      /\ call.conversationId = activeConversationId
         ]_vars
    /\ [] ( \A k \in DOMAIN calls :
              ( /\ calls[k].created
                /\ calls[k].state = "pending"
                /\ OtherCallsOn(calls[k].conversationId, k) = {}
                /\ calls[k].conversationId \in ConvIds(conversations) )
                => MessagesOf(conversations, calls[k].conversationId) =
                     << UserMessageOf(k) >> )

\* C10 witness: with a conversation already listed and none active, a call
\* created a second conversation, now first in the list and active, holding
\* the user message only, while its remote call is in flight.
C10_Witness ==
    \E k \in DOMAIN calls :
      /\ calls[k].created
      /\ calls[k].state = "pending"
      /\ Len(conversations) = 2
      /\ conversations[1].id = calls[k].conversationId
      /\ conversations[1].messages = << UserMessageOf(k) >>
      /\ activeConversationId = calls[k].conversationId

----------------------------------------------------------------------------
\* The listed conversation with this id (used where one is listed).
ConversationOf(id) ==
    conversations[CHOOSE i \in DOMAIN conversations : conversations[i].id = id]

\* C11: the title of a conversation created implicitly by
\* sendMessage(content) is content itself when content has at most 30
\* characters, and the first 30 characters of content followed by "..."
\* when it has more.
C11_ImplicitTitle ==
    \A k \in DOMAIN calls :
      ( calls[k].created /\ calls[k].conversationId \in ConvIds(conversations) )
        => LET content == calls[k].content
               title == ConversationOf(calls[k].conversationId).title
           IN  IF Len(content) <= 30
               THEN title = content
               ELSE /\ Len(title) = 33
                    /\ \A i \in 1..30 : title[i] = content[i]
                    /\ title[31] = "." /\ title[32] = "." /\ title[33] = "."

\* C11 witness: a listed conversation was created from a text of 31
\* characters and is titled with 33, and another call created a conversation
\* from a text of exactly 30 characters.
C11_Witness ==
    /\ \E k \in DOMAIN calls :
         /\ calls[k].created
         /\ calls[k].conversationId \in ConvIds(conversations)
         /\ Len(calls[k].content) = 31
         /\ Len(ConversationOf(calls[k].conversationId).title) = 33
    /\ \E k \in DOMAIN calls :
         calls[k].created /\ Len(calls[k].content) = 30

\* C12: sendMessage with a content that is empty after trimming is a no-op:
\* the call creates no conversation, appends no message and issues no remote
\* call (so isTyping is not set for it).  (Stated as claimed; the hook makes
\* no such test, only ChatInput.handleSubmit does.)
C12_BlankIsNoOp ==
    \A k \in DOMAIN calls :
      Trim(calls[k].content) = << >>
        => /\ ~calls[k].created
           /\ calls[k].requests = << >>
           /\ calls[k].state # "pending"
           /\ \A i \in DOMAIN conversations :
                IndexOf(conversations[i].messages, UserMessageId(k)) = 0

\* C13: after any sequence of createNewConversation, sendMessage,
\* deleteConversation and setActive on listed ids (or null),
\* activeConversationId is null or the id of a listed conversation.
C13_ActiveIsListed ==
    activeConversationId = Null \/ activeConversationId \in ConvIds(conversations)

\* C13 witness: the conversation a call was sent to has been deleted while
\* the remote call is in flight; no conversation is active, another one is
\* listed.
C13_Witness ==
    /\ activeConversationId = Null
    /\ conversations # << >>
    /\ \E k \in DOMAIN calls :
         /\ calls[k].state = "pending"
         /\ calls[k].conversationId \notin ConvIds(conversations)

C15_TitleFromFirstUserMessage ==
    \A i \in DOMAIN conversations :
      LET m == conversations[i].messages
          users == { j \in DOMAIN m : m[j].role = "user" }
          first == m[CHOOSE j \in users : \A l \in users : j <= l].content
      IN  /\ users # {} =>
               conversations[i].title =
                 IF Len(first) <= 30 THEN first
                 ELSE SubSeq(first, 1, 30) \o << ".", ".", "." >>
          /\ conversations[i].title = << "N", "e", "w", " ", "C", "h", "a", "t" >>
               => m = << >>

\* The position of the conversation with this id in convs, 0 when unlisted.
PositionOf(convs, id) ==
    IF \E i \in DOMAIN convs : convs[i].id = id
    THEN CHOOSE i \in DOMAIN convs : convs[i].id = id
    ELSE 0

\* C16: createNewConversation adds one conversation with no messages and the
\* title "New Chat" at the front of the list and makes it active; across
\* every step a conversation that enters the list enters at the front, one
\* at a time, and the conversations that stay listed keep their relative
\* order.
C16_NewAtFrontOrderKept ==
    [][ /\ CreateNewConversation =>
             /\ Len(conversations') = Len(conversations) + 1
             /\ Tail(conversations') = conversations
             /\ conversations'[1].id \notin ConvIds(conversations)
             /\ conversations'[1].messages = << >>
             /\ conversations'[1].title = << "N", "e", "w", " ", "C", "h", "a", "t" >>
             /\ activeConversationId' = conversations'[1].id
        /\ \A id \in ConvIds(conversations') \ ConvIds(conversations) :
             /\ PositionOf(conversations', id) = 1
             /\ Len(conversations') = Len(conversations) + 1
        /\ \A a, b \in ConvIds(conversations) \cap ConvIds(conversations') :
             PositionOf(conversations, a) < PositionOf(conversations, b)
               => PositionOf(conversations', a) < PositionOf(conversations', b)
      ]_vars

\* C16 witness: an explicitly created conversation stands first in the list,
\* empty, titled "New Chat" and active, in front of an older conversation
\* that holds messages.
C16_Witness ==
    /\ Len(conversations) = 2
    /\ conversations[1].id = 2
    /\ conversations[1].title = NewChatTitle
    /\ conversations[1].messages = << >>
    /\ activeConversationId = 2
    /\ conversations[2].id = 1
    /\ Len(conversations[2].messages) = 2

\* C17: when a sendMessage call has issued its remote call, the user message
\* is already the last message of the resolved conversation and isTyping is
\* true; and in every state, the user message of an outstanding call is in
\* its conversation as long as that conversation is listed.
C17_AppendAndPendingBeforeCall ==
    /\ [][ SendStep =>
             LET call == calls'[Len(calls')]
                 after == MessagesOf(conversations', call.conversationId)
             IN  /\ call.state = "pending"
                 /\ Len(call.requests) = 1
                 /\ isTyping'
                 /\ call.conversationId \in ConvIds(conversations')
                 /\ after # << >>
                 /\ after[Len(after)].id = call.userMessage
         ]_vars
    /\ [] ( \A k \in Outstanding :
              calls[k].conversationId \in ConvIds(conversations)
                => IndexOf(MessagesOf(conversations, calls[k].conversationId),
                           UserMessageId(k)) # 0 )

\* C17 witness: two remote calls are outstanding on one listed conversation,
\* which holds both user messages, and isTyping is true.
C17_Witness ==
    /\ isTyping
    /\ Len(calls) = 2
    /\ Outstanding = { 1, 2 }
    /\ calls[1].conversationId = calls[2].conversationId
    /\ MessagesOf(conversations, calls[1].conversationId) =
         << UserMessageOf(1), UserMessageOf(2) >>

\* C18: with sendMessage reached through ChatInput.handleSubmit only, at
\* most one remote call is outstanding at any time, sendMessage is never
\* called with an empty or untrimmed content, and isTyping is true exactly
\* while that one call is outstanding.
C18_GatedSingleCall ==
    /\ Cardinality(Outstanding) <= 1
    /\ isTyping <=> (Outstanding # {})
    /\ \A k \in DOMAIN calls :
         calls[k].content # << >> /\ Trim(calls[k].content) = calls[k].content

\* C18 witness: a first call has settled, after which a second message was
\* submitted; its remote call is the only one outstanding and isTyping is
\* true.
C18_Witness ==
    /\ Len(calls) = 2
    /\ calls[1].state = "fulfilled"
    /\ calls[2].state = "pending"
    /\ calls[1].conversationId = calls[2].conversationId
    /\ calls[1].found
    /\ isTyping

\* The active id is set and resolves to no listed conversation.
ActiveUnlisted ==
    /\ activeConversationId # Null
    /\ activeConversationId \notin ConvIds(conversations)

\* C19: while activeConversationId resolves to no listed conversation the
\* message view is empty; sendMessage(content) in that state creates no
\* conversation and appends nothing, sets isTyping and issues one remote call
\* whose payload is the new user message alone; the id stays unresolved, and
\* the continuation of that call appends nothing and clears isTyping.
C19_UnlistedActive ==
    /\ [] ( ActiveUnlisted => messages = << >> )
    /\ [][ /\ ( SendStep /\ ActiveUnlisted )
               => LET call == calls'[Len(calls')]
                  IN  /\ conversations' = conversations
                      /\ nextConvId' = nextConvId
                      /\ ~call.created
                      /\ call.conversationId = activeConversationId
                      /\ isTyping'
                      /\ call.state = "pending"
                      /\ Len(call.requests) = 1
                      /\ Len(call.requests[1]) = 1
                      /\ call.requests[1][1].role = "user"
                      /\ call.requests[1][1].content = call.content
           /\ \A k \in DOMAIN calls :
                calls[k].conversationId \notin ConvIds(conversations)
                  => /\ calls[k].conversationId \notin ConvIds(conversations')
                     /\ SettleStep(k)
                          => /\ conversations' = conversations
                             /\ calls'[k].state = "fulfilled"
                             /\ ~isTyping'
        ]_vars

\* C19 witness: a message was sent while the active id was one no
\* conversation ever had, with another conversation listed; the call got a
\* reply and settled, no conversation holds a message, and isTyping is
\* cleared.
C19_Witness ==
    /\ conversations # << >>
    /\ \A i \in DOMAIN conversations : conversations[i].messages = << >>
    /\ \E k \in DOMAIN calls :
         /\ calls[k].conversationId = MaxConvs + 1
         /\ ~calls[k].created
         /\ calls[k].state = "fulfilled"
         /\ calls[k].outcome = "reply"
         /\ ~calls[k].found
    /\ ActiveUnlisted
    /\ ~isTyping

====
